---- MODULE Spec2Model ----
(***************************************************************************)
(* State-machine model of radextractor.py (atlas projection and regional   *)
(* metric extraction): atlas loading, the session walk, the grid-keyed     *)
(* resample cache, QC target selection and per-region statistics.          *)
(*                                                                         *)
(* Conventions.                                                            *)
(*  - A Python str is a sequence of one-character strings.                 *)
(*  - A float is a tuple: <<>> is NaN, <<n, d>> is the rational n/d, d > 0.*)
(*  - An optional value is <<>> (None) or <<x>>.                           *)
(*  - An insertion-ordered dict is a sequence of <<key, value>> pairs.     *)
(*  - A volume is a function from voxel indices <<i, j, k>> to floats.     *)
(***************************************************************************)
EXTENDS Integers, Sequences, FiniteSets, TLC

\* ------------------------------------------------------------- bounds
\* Sessions the walk yields in one run.
MaxSessions == 3
\* Voxels of a volume in the extraction-only specification.
MaxVoxels == 3

\* ------------------------------------------------------------- str
\* s[i..] starts with p (1-based).
StartsAt(s, p, i) ==
    /\ i + Len(p) - 1 <= Len(s)
    /\ \A j \in 1..Len(p) : s[i + j - 1] = p[j]

\* Index of the first occurrence of p in s, 0 when there is none (str.find).
Find(s, p) ==
    LET hits == {i \in 1..Len(s) : StartsAt(s, p, i)}
    IN  IF hits = {} THEN 0 ELSE CHOOSE i \in hits : \A j \in hits : i <= j

\* p in s
Contains(s, p) == Find(s, p) # 0

\* s.split(sep)[0]
SplitHead(s, sep) ==
    IF Find(s, sep) = 0 THEN s ELSE SubSeq(s, 1, Find(s, sep) - 1)

\* s.replace(old, "") from position i on: left to right, non-overlapping
RECURSIVE RemoveFrom(_, _, _)
RemoveFrom(s, old, i) ==
    IF i > Len(s) THEN <<>>
    ELSE IF StartsAt(s, old, i) THEN RemoveFrom(s, old, i + Len(old))
         ELSE <<s[i]>> \o RemoveFrom(s, old, i + 1)
Remove(s, old) == RemoveFrom(s, old, 1)

UpperCase == <<"A","B","C","D","E","F","G","H","I","J","K","L","M",
               "N","O","P","Q","R","S","T","U","V","W","X","Y","Z">>
LowerCase == <<"a","b","c","d","e","f","g","h","i","j","k","l","m",
               "n","o","p","q","r","s","t","u","v","w","x","y","z">>

\* s.lower()
Lower(s) ==
    [i \in 1..Len(s) |->
        IF \E u \in 1..Len(UpperCase) : UpperCase[u] = s[i]
        THEN LowerCase[CHOOSE u \in 1..Len(UpperCase) : UpperCase[u] = s[i]]
        ELSE s[i]]

\* get_clean_name(path): the file name up to its first ".nii"
get_clean_name(name) == SplitHead(name, <<".","n","i","i">>)

\* The key of an ROI file: get_clean_name(f).replace("_thr0", "")
RoiKey(name) == Remove(get_clean_name(name), <<"_","t","h","r","0">>)

\* Path.glob("*.nii*") keeps the names that contain ".nii"
MatchesNii(name) == Contains(name, <<".","n","i","i">>)

\* ------------------------------------------------------------- float
NaN == <<>>
Num(n) == <<n, 1>>
IsNaN(x) == x = <<>>
\* x > y, x < y, x == y of IEEE floats: every comparison with NaN is False
Gt(x, y) == ~IsNaN(x) /\ ~IsNaN(y) /\ x[1] * y[2] > y[1] * x[2]
Lt(x, y) == Gt(y, x)
Eq(x, y) == ~IsNaN(x) /\ ~IsNaN(y) /\ x[1] * y[2] = y[1] * x[2]
Add(x, y) == IF IsNaN(x) \/ IsNaN(y) THEN NaN
             ELSE <<x[1] * y[2] + y[1] * x[2], x[2] * y[2]>>
Sub(x, y) == IF IsNaN(x) \/ IsNaN(y) THEN NaN
             ELSE <<x[1] * y[2] - y[1] * x[2], x[2] * y[2]>>
Mul(x, y) == IF IsNaN(x) \/ IsNaN(y) THEN NaN ELSE <<x[1] * y[1], x[2] * y[2]>>
DivInt(x, n) == IF IsNaN(x) THEN NaN ELSE <<x[1], x[2] * n>>

\* ------------------------------------------------------------- dict
Keys(d) == {d[i][1] : i \in DOMAIN d}
HasKey(d, k) == \E i \in DOMAIN d : d[i][1] = k
\* d[k] = v: a present key keeps its position, a new key is appended
DictSet(d, k, v) ==
    IF HasKey(d, k)
    THEN [i \in DOMAIN d |-> IF d[i][1] = k THEN <<k, v>> ELSE d[i]]
    ELSE Append(d, <<k, v>>)
\* d.get(k): <<>> (None) or <<value>>
DictGet(d, k) ==
    IF HasKey(d, k) THEN <<d[CHOOSE i \in DOMAIN d : d[i][1] = k][2]>> ELSE <<>>
\* {**a, **b}: the keys of a keep their places and take b's values, the
\* other keys of b follow in b's order
DictMerge(a, b) ==
    [i \in DOMAIN a |->
        IF HasKey(b, a[i][1]) THEN <<a[i][1], DictGet(b, a[i][1])[1]>> ELSE a[i]]
    \o SelectSeq(b, LAMBDA e : ~HasKey(a, e[1]))
\* {k: v for k, v in pairs}: a key's place is its first occurrence, its value
\* the last one's
DictOf(pairs) ==
    LET keep == {i \in DOMAIN pairs : \A j \in 1..(i - 1) : pairs[j][1] # pairs[i][1]}
        Nth(n) == CHOOSE i \in keep : Cardinality({j \in keep : j < i}) = n - 1
        Last(k) == CHOOSE i \in DOMAIN pairs :
                      /\ pairs[i][1] = k
                      /\ \A j \in DOMAIN pairs : pairs[j][1] = k => j <= i
    IN  [n \in 1..Cardinality(keep) |->
            <<pairs[Nth(n)][1], pairs[Last(pairs[Nth(n)][1])][2]>>]

\* ------------------------------------------------------------- volumes
\* The voxel indices of an array of the given shape.
Voxels(shape) ==
    {<<i, j, k>> : i \in 0..(shape[1] - 1), j \in 0..(shape[2] - 1),
                   k \in 0..(shape[3] - 1)}
Size(shape) == shape[1] * shape[2] * shape[3]
\* The n-th voxel (n from 0) in C order, the order boolean indexing yields.
Unravel(shape, n) ==
    <<n \div (shape[2] * shape[3]), (n \div shape[3]) % shape[2], n % shape[3]>>

\* 4x4 affines with integer entries, as 4 rows of 4.
Identity == <<<<1,0,0,0>>, <<0,1,0,0>>, <<0,0,1,0>>, <<0,0,0,1>>>>
MatMul(A, B) ==
    [r \in 1..4 |-> [c \in 1..4 |->
        A[r][1] * B[1][c] + A[r][2] * B[2][c] + A[r][3] * B[3][c] + A[r][4] * B[4][c]]]
\* The voxel index v taken through the affine A (homogeneous coordinates).
Apply(A, v) ==
    [r \in 1..3 |-> A[r][1] * v[1] + A[r][2] * v[2] + A[r][3] * v[3] + A[r][4]]
\* np.linalg.inv of a pure translation (unit linear part), the atlas affines
\* of this model.
InvTranslation(A) ==
    [r \in 1..4 |-> [c \in 1..4 |->
        IF c = 4 /\ r < 4 THEN 0 - A[r][4] ELSE A[r][c]]]
\* np.sum(affine)
AffineSum(A) ==
    LET RowSum(r) == A[r][1] + A[r][2] + A[r][3] + A[r][4]
    IN  RowSum(1) + RowSum(2) + RowSum(3) + RowSum(4)
\* The determinant of the linear part of an affine.
Det3(A) ==
      A[1][1] * (A[2][2] * A[3][3] - A[2][3] * A[3][2])
    - A[1][2] * (A[2][1] * A[3][3] - A[2][3] * A[3][1])
    + A[1][3] * (A[2][1] * A[3][2] - A[2][2] * A[3][1])

\* ------------------------------------------------------------- images
\* An image is [shape, affine, data]; nib.load of a corrupt file raises.
\* resample_img(img, target_affine, target_shape, interpolation='nearest'):
\* each target voxel takes the value of the source voxel it falls on, 0 outside
\* the source; the result carries the target's affine and shape.  "at" is a
\* history field: the session the entry was resampled for.
\* (variant: the result keeps the source's grid)
resample_img_keep_header(img, target_affine, target_shape, at) ==
    [shape |-> img.shape, affine |-> img.affine, data |-> img.data, at |-> at]
resample_img(img, target_affine, target_shape, at) ==
    LET T == MatMul(InvTranslation(img.affine), target_affine)
    IN  [shape  |-> target_shape,
         affine |-> target_affine,
         data   |-> [v \in Voxels(target_shape) |->
                        LET src == Apply(T, v)
                        IN  IF src \in Voxels(img.shape) THEN img.data[src]
                            ELSE Num(0)],
         at     |-> at]

\* Whether resample_img raises: it may on a degenerate target (zero-volume
\* shape or non-invertible affine), and does not otherwise.
ResampleRaises(target_affine, target_shape) ==
    IF Size(target_shape) = 0 \/ Det3(target_affine) = 0
    THEN {TRUE, FALSE} ELSE {FALSE}

\* grid_params = (ref_img.shape, np.sum(ref_img.affine))
GridParams(img) == <<img.shape, AffineSum(img.affine)>>

\* grid_params != last_grid_params (last_grid_params is None or a tuple)
\* (variants: a comparison that never matches; one that looks at the shape alone)
GridChangedAlways(gp, last) == TRUE
GridChangedShapeOnly(gp, last) == IF last = <<>> THEN TRUE ELSE gp[1] # last[1][1]
GridChanged(gp, last) == <<gp>> # last

\* ------------------------------------------------------------- extraction
\* (mask_data > 0.5) & (data > 0) at one voxel
\* (variant: data >= 0)
SelectedNonNegative(m, d) == Gt(m, <<1, 2>>) /\ (Gt(d, Num(0)) \/ Eq(d, Num(0)))
Selected(m, d) == Gt(m, <<1, 2>>) /\ Gt(d, Num(0))

\* The boolean index (mask_data > 0.5) & (data > 0) must have the data's
\* shape: numpy stretches the mask's axes of length 1 and raises otherwise.
Broadcasts(mshape, dshape) == \A a \in 1..3 : mshape[a] \in {dshape[a], 1}
MaskAt(mask, v) ==
    mask.data[<<IF mask.shape[1] = 1 THEN 0 ELSE v[1],
                IF mask.shape[2] = 1 THEN 0 ELSE v[2],
                IF mask.shape[3] = 1 THEN 0 ELSE v[3]>>]

\* vals = data[(mask_data > 0.5) & (data > 0)]: the selected voxels' values
\* in C order
BoolIndex(data, mask) ==
    LET flat == [n \in 1..Size(data.shape) |->
                    LET v == Unravel(data.shape, n - 1)
                    IN  <<Selected(MaskAt(mask, v), data.data[v]), data.data[v]>>]
        picked == SelectSeq(flat, LAMBDA e : e[1])
    IN  [i \in DOMAIN picked |-> picked[i][2]]

RECURSIVE SumTo(_, _)
SumTo(xs, n) == IF n = 0 THEN Num(0) ELSE Add(xs[n], SumTo(xs, n - 1))
SumSeq(xs) == SumTo(xs, Len(xs))

\* np.sort of an array without NaN: the element of rank i at place i
Sorted(xs) ==
    LET Rank(j) == 1 + Cardinality({k \in DOMAIN xs :
                        Lt(xs[k], xs[j]) \/ (Eq(xs[k], xs[j]) /\ k < j)})
    IN  [i \in DOMAIN xs |-> xs[CHOOSE j \in DOMAIN xs : Rank(j) = i]]

DropNaN(xs) == SelectSeq(xs, LAMBDA x : ~IsNaN(x))
\* np.nanmean, np.nanmin, np.nanmax, np.median of a non-empty array.
NanMean(xs) == DivInt(SumSeq(DropNaN(xs)), Len(DropNaN(xs)))
NanMin(xs) == Sorted(DropNaN(xs))[1]
NanMax(xs) == Sorted(DropNaN(xs))[Len(DropNaN(xs))]
Median(xs) ==
    IF \E i \in DOMAIN xs : IsNaN(xs[i]) THEN NaN
    ELSE LET s == Sorted(xs)
             n == Len(xs)
         IN  IF n % 2 = 1 THEN s[(n + 1) \div 2]
             ELSE DivInt(Add(s[n \div 2], s[n \div 2 + 1]), 2)
\* np.nanstd squared: the mean of the squared deviations from the mean (the
\* model keeps the variance, whose square root the code reports).
NanVar(xs) ==
    LET ys == DropNaN(xs)
        m  == NanMean(xs)
        sq == [i \in DOMAIN ys |-> Mul(Sub(ys[i], m), Sub(ys[i], m))]
    IN  DivInt(SumSeq(sq), Len(ys))

\* results[name]: [mean, std, min, max, median] (std held as its square)
RegionStats(data, mask) ==
    LET vals == BoolIndex(data, mask)
    IN  IF Len(vals) = 0 THEN <<NaN, NaN, NaN, NaN, NaN>>
        ELSE <<NanMean(vals), NanVar(vals), NanMin(vals), NanMax(vals), Median(vals)>>

\* results[name] = ... for name, res_mask in combined_targets.items()
Results(data, targets) ==
    DictOf([i \in DOMAIN targets |-> <<targets[i][1], RegionStats(data, targets[i][2])>>])

\* ------------------------------------------------------------- QC targets
\* "white" in k.lower() or "wm" in k.lower()
\* (variant: without .lower())
QcWmMatchCaseSensitive(k) ==
    \/ Contains(k, <<"w","h","i","t","e">>)
    \/ Contains(k, <<"w","m">>)
QcWmMatch(k) ==
    \/ Contains(Lower(k), <<"w","h","i","t","e">>)
    \/ Contains(Lower(k), <<"w","m">>)

\* next((v for k, v in tpms.items() if <match>), None); the model keeps the
\* key beside the value.
QcWm(tpms) ==
    LET hits == {i \in DOMAIN tpms : QcWmMatch(tpms[i][1])}
    IN  IF hits = {} THEN <<>>
        ELSE <<tpms[CHOOSE i \in hits : \A j \in hits : i <= j]>>

\* current_resampled_rois.get("Corpus_Callosum")
QcRoi(rois) == DictGet(rois, <<"C","o","r","p","u","s","_","C","a","l","l","o","s","u","m">>)

\* ------------------------------------------------------------- inputs
Ravel(shape, v) == (v[1] * shape[2] + v[2]) * shape[3] + v[3]
\* An image from its voxel values listed in C order.
Vol(shape, affine, vals) ==
    [shape |-> shape, affine |-> affine,
     data |-> [v \in Voxels(shape) |-> vals[Ravel(shape, v) + 1]]]
File(name, img) == [name |-> name, ok |-> TRUE, img |-> img]
Corrupt == [name |-> <<>>, ok |-> FALSE, img |-> Vol(<<0, 0, 0>>, Identity, <<>>)]

AtlasShape == <<2, 2, 1>>
CCImg == Vol(AtlasShape, Identity, <<Num(1), Num(0), Num(1), Num(0)>>)
ThalImg == Vol(AtlasShape, Identity, <<Num(0), Num(1), Num(0), Num(0)>>)
WhiteImg == Vol(AtlasShape, Identity, <<<<4, 5>>, <<4, 5>>, <<3, 10>>, Num(0)>>)
GreyImg == Vol(AtlasShape, Identity, <<<<1, 5>>, <<1, 2>>, <<7, 10>>, Num(1)>>)
WmImg == Vol(AtlasShape, Identity, <<<<9, 10>>, Num(0), <<1, 10>>, Num(0)>>)

CCFile == File(<<"C","o","r","p","u","s","_","C","a","l","l","o","s","u","m","_","t","h","r","0",".","n","i","i",".","g","z">>, CCImg)
ThalFile == File(<<"T","h","a","l","a","m","u","s","_","t","h","r","0",".","n","i","i">>, ThalImg)
WhiteFile == File(<<"W","h","i","t","e","_","M","a","t","t","e","r",".","n","i","i",".","g","z">>, WhiteImg)
GreyFile == File(<<"G","r","e","y","_","M","a","t","t","e","r",".","n","i","i">>, GreyImg)
WmFile == File(<<"G","M","_","W","M",".","n","i","i",".","g","z">>, WmImg)
CsfFile == File(<<"C","S","F",".","n","i","i">>, GreyImg)
ReadmeFile == File(<<"R","E","A","D","M","E",".","t","x","t">>, GreyImg)

\* The atlas version directory: each subdirectory is <<>> (missing) or
\* <<its files in listing order>>.
AtlasDirs ==
    { [roi |-> <<<<CCFile, ThalFile>>>>, tpm |-> <<<<GreyFile, WmFile, WhiteFile>>>>],
      [roi |-> <<<<ThalFile>>>>,         tpm |-> <<<<WhiteFile>>>>],
      [roi |-> <<<<CCFile>>>>,           tpm |-> <<<<CsfFile, ReadmeFile>>>>],
      [roi |-> <<<<CCFile>>>>,           tpm |-> <<>>],
      [roi |-> <<<<ReadmeFile>>>>,       tpm |-> <<<<WhiteFile>>>>] }

TransX == [Identity EXCEPT ![1][4] = 1]
TransY == [Identity EXCEPT ![2][4] = 1]
Singular == [Identity EXCEPT ![1][1] = 0]

DtiTypes == <<"FA", "MD", "AD", "RD">>
\* A session's dwi directory: for each metric type <<>> (no file matches the
\* pattern) or <<the first file matching>>.
Dwi(fa, md, ad, rd) == <<[FA |-> fa, MD |-> md, AD |-> ad, RD |-> rd]>>
Data(shape, affine, vals) == <<File(<<>>, Vol(shape, affine, vals))>>

\* The sessions the walk may yield: dwi is <<>> when ses-*/dwi does not exist.
SessionInputs ==
    { [dwi |-> <<>>],
      [dwi |-> Dwi(<<>>, Data(<<2,1,1>>, Identity, <<Num(1), Num(1)>>), <<>>, <<>>)],
      [dwi |-> Dwi(Data(<<2,1,1>>, Identity, <<Num(2), Num(0)>>),
                   Data(<<2,1,1>>, Identity, <<Num(0), Num(0)>>),
                   Data(<<2,1,1>>, Identity, <<Num(3), Num(1)>>),
                   Data(<<2,1,1>>, Identity, <<NaN, Num(-1)>>))],
      [dwi |-> Dwi(Data(<<1,2,1>>, Identity, <<Num(1), Num(2)>>), <<>>, <<>>,
                   Data(<<1,2,1>>, Identity, <<Num(4), Num(2)>>))],
      [dwi |-> Dwi(Data(<<2,1,1>>, TransX, <<Num(2), Num(3)>>), <<>>, <<>>, <<>>)],
      [dwi |-> Dwi(Data(<<2,1,1>>, TransY, <<Num(2), Num(3)>>),
                   Data(<<2,1,1>>, TransY, <<Num(1), Num(5)>>), <<>>, <<>>)],
      [dwi |-> Dwi(Data(<<2,1,1>>, Singular, <<Num(1), Num(1)>>), <<>>, <<>>, <<>>)],
      [dwi |-> Dwi(Data(<<2,1,1>>, Identity, <<Num(2), Num(2)>>), <<Corrupt>>,
                   Data(<<2,1,1>>, Identity, <<Num(1), Num(1)>>), <<>>)],
      [dwi |-> Dwi(Data(<<2,1,1>>, Identity, <<Num(2), Num(2)>>), <<>>,
                   Data(<<1,2,1>>, Identity, <<Num(1), Num(1)>>), <<>>)],
      [dwi |-> Dwi(<<Corrupt>>, <<>>, <<>>, <<>>)] }

\* ------------------------------------------------------------- state
VARIABLES
    pc,                      \* position of main
    failure,                 \* "none", or the stage an uncaught exception left
    atlas,                   \* the atlas version directory (input)
    derivExists,             \* derivatives/atlas_space-clean exists (input)
    raw_masks, raw_tpms,     \* loaded atlas entries
    current_resampled_rois, current_resampled_tpms,
    last_grid_params,
    sesIdx,                  \* sessions the walk has yielded
    session,                 \* the session being processed
    ref_img, grid_params,
    it,                      \* position of the running for loop
    csv, qc,                 \* files written
    log,                     \* history: per processed session, grid and whether it resampled
    resampleCount,           \* history: times the resampling block was entered
    ex_data, ex_mask, ex_out \* extraction-only specification

vars == <<pc, failure, atlas, derivExists, raw_masks, raw_tpms,
          current_resampled_rois, current_resampled_tpms, last_grid_params,
          sesIdx, session, ref_img, grid_params, it, csv, qc, log,
          resampleCount, ex_data, ex_mask, ex_out>>

exVars == <<ex_data, ex_mask, ex_out>>
inputVars == <<atlas, derivExists>>
atlasVars == <<raw_masks, raw_tpms>>
cacheVars == <<current_resampled_rois, current_resampled_tpms, last_grid_params>>
outVars == <<csv, qc>>

\* list(path.glob("*.nii*")): nothing when the directory is missing
Glob(dir) == IF dir = <<>> THEN <<>> ELSE SelectSeq(dir[1], LAMBDA f : MatchesNii(f.name))

\* {get_clean_name(f).replace("_thr0", ""): nib.load(str(f)) for f in roi_files}
LoadMasks(files) ==
    DictOf([i \in DOMAIN files |-> <<RoiKey(files[i].name), files[i].img>>])

\* {get_clean_name(f): nib.load(str(f)) for f in tpm_files}
LoadTpms(files) ==
    DictOf([i \in DOMAIN files |-> <<get_clean_name(files[i].name), files[i].img>>])

Idle ==
    /\ failure = "none"
    /\ raw_masks = <<>> /\ raw_tpms = <<>>
    /\ current_resampled_rois = <<>> /\ current_resampled_tpms = <<>>
    /\ last_grid_params = <<>>
    /\ sesIdx = 0 /\ session = <<>> /\ ref_img = <<>> /\ grid_params = <<>>
    /\ it = 0 /\ csv = {} /\ qc = {} /\ log = <<>> /\ resampleCount = 0

Init ==
    /\ pc = "start"
    /\ atlas \in AtlasDirs
    /\ derivExists \in BOOLEAN
    /\ Idle
    /\ ex_data = <<>> /\ ex_mask = <<>> /\ ex_out = <<>>

\* An uncaught exception ends main.
Raise(stage) == pc' = "aborted" /\ failure' = stage

\* Lines 57-78: load the atlas, list the subjects, create the empty cache.
LoadAtlas ==
    /\ pc = "start"
    /\ raw_masks' = LoadMasks(Glob(atlas.roi))
    /\ raw_tpms' = LoadTpms(Glob(atlas.tpm))
    /\ \/ derivExists /\ pc' = "walk" /\ failure' = failure
       \/ ~derivExists /\ Raise("setup")
    /\ UNCHANGED <<inputVars, cacheVars, sesIdx, session, ref_img, grid_params,
                   it, outVars, log, resampleCount, exVars>>

\* Lines 80-86: the next session of the walk; one without a dwi directory or
\* without an FA file is passed over.
NextSession ==
    /\ pc = "walk"
    /\ sesIdx < MaxSessions
    /\ \E s \in SessionInputs :
          /\ session' = <<s>>
          /\ \/ s.dwi = <<>> /\ pc' = "walk"
             \/ s.dwi # <<>> /\ s.dwi[1].FA = <<>> /\ pc' = "walk"
             \/ s.dwi # <<>> /\ s.dwi[1].FA # <<>> /\ pc' = "load_ref"
    /\ sesIdx' = sesIdx + 1
    /\ UNCHANGED <<failure, inputVars, atlasVars, cacheVars, ref_img, grid_params,
                   it, outVars, log, resampleCount, exVars>>

\* Line 80: the walk is exhausted.
Finish ==
    /\ pc = "walk"
    /\ pc' = "done"
    /\ UNCHANGED <<failure, inputVars, atlasVars, cacheVars, sesIdx, session,
                   ref_img, grid_params, it, outVars, log, resampleCount, exVars>>

\* Lines 88-95: load the reference volume, derive the grid and compare it with
\* the recorded one; on a change both cached sets are emptied.
LoadRef ==
    /\ pc = "load_ref"
    /\ LET fa == session[1].dwi[1].FA[1]
           gp == GridParams(fa.img)
       IN  \/ /\ ~fa.ok
              /\ Raise("session")
              /\ UNCHANGED <<ref_img, grid_params, current_resampled_rois,
                             current_resampled_tpms, it, log, resampleCount>>
           \/ /\ fa.ok
              /\ ref_img' = <<fa.img>>
              /\ grid_params' = <<gp>>
              /\ failure' = failure
              /\ \/ /\ GridChanged(gp, last_grid_params)
                    /\ current_resampled_rois' = <<>>
                    /\ current_resampled_tpms' = <<>>
                    /\ resampleCount' = resampleCount + 1
                    /\ log' = Append(log, [gp |-> gp, resampled |-> TRUE])
                    /\ it' = 1
                    /\ pc' = "resample_rois"
                 \/ /\ ~GridChanged(gp, last_grid_params)
                    /\ log' = Append(log, [gp |-> gp, resampled |-> FALSE])
                    /\ UNCHANGED <<current_resampled_rois, current_resampled_tpms,
                                   resampleCount, it>>
                    /\ pc' = "qc"
    /\ UNCHANGED <<inputVars, atlasVars, last_grid_params, sesIdx, session,
                   outVars, exVars>>

\* Lines 98-102: one iteration of the loop over raw_masks, or its end.
ResampleRois ==
    /\ pc = "resample_rois"
    /\ \/ /\ it <= Len(raw_masks)
          /\ TRUE \in ResampleRaises(ref_img[1].affine, ref_img[1].shape)
          /\ Raise("session")
          /\ UNCHANGED <<current_resampled_rois, it>>
       \/ /\ it <= Len(raw_masks)
          /\ FALSE \in ResampleRaises(ref_img[1].affine, ref_img[1].shape)
          /\ current_resampled_rois' =
                DictSet(current_resampled_rois, raw_masks[it][1],
                        resample_img(raw_masks[it][2], ref_img[1].affine,
                                     ref_img[1].shape, sesIdx))
          /\ it' = it + 1
          /\ UNCHANGED <<pc, failure>>
       \/ /\ it > Len(raw_masks)
          /\ pc' = "resample_tpms"
          /\ it' = 1
          /\ UNCHANGED <<current_resampled_rois, failure>>
    /\ UNCHANGED <<inputVars, atlasVars, current_resampled_tpms, last_grid_params,
                   sesIdx, session, ref_img, grid_params, outVars, log,
                   resampleCount, exVars>>

\* Line 104: the loop over raw_tpms.items() ends after its last item.
\* (variant: the loop is left after its first item)
TpmLoopDoneEarly(i) == i > 1
TpmLoopDone(i) == i > Len(raw_tpms)

\* Lines 104-109: one iteration of the loop over raw_tpms, or its end, where
\* the grid is recorded.
ResampleTpms ==
    /\ pc = "resample_tpms"
    /\ \/ /\ it <= Len(raw_tpms)
          /\ TRUE \in ResampleRaises(ref_img[1].affine, ref_img[1].shape)
          /\ Raise("session")
          /\ UNCHANGED <<current_resampled_tpms, last_grid_params, it>>
       \/ /\ it <= Len(raw_tpms)
          /\ FALSE \in ResampleRaises(ref_img[1].affine, ref_img[1].shape)
          /\ current_resampled_tpms' =
                DictSet(current_resampled_tpms, raw_tpms[it][1],
                        resample_img(raw_tpms[it][2], ref_img[1].affine,
                                     ref_img[1].shape, sesIdx))
          /\ it' = it + 1
          /\ UNCHANGED <<pc, failure, last_grid_params>>
       \/ /\ TpmLoopDone(it)
          /\ last_grid_params' = grid_params
          /\ pc' = "qc"
          /\ it' = 1
          /\ UNCHANGED <<current_resampled_tpms, failure>>
    /\ UNCHANGED <<inputVars, atlasVars, current_resampled_rois, sesIdx, session,
                   ref_img, grid_params, outVars, log, resampleCount, exVars>>

\* Lines 111-121: the QC overlay, written when both targets are found.
RenderQc ==
    /\ pc = "qc"
    /\ LET qc_roi == QcRoi(current_resampled_rois)
           qc_wm  == QcWm(current_resampled_tpms)
       IN  \/ /\ qc_roi # <<>> /\ qc_wm # <<>>
              /\ qc' = qc \cup {[ses |-> sesIdx, ref |-> ref_img[1],
                                 roi |-> qc_roi[1], wm |-> qc_wm[1][2],
                                 wm_name |-> qc_wm[1][1]]}
           \/ /\ ~(qc_roi # <<>> /\ qc_wm # <<>>)
              /\ qc' = qc
    /\ pc' = "metric"
    /\ it' = 1
    /\ UNCHANGED <<failure, inputVars, atlasVars, cacheVars, sesIdx, session,
                   ref_img, grid_params, csv, log, resampleCount, exVars>>

\* Line 126: `continue` passes to the next metric type.
\* (variant: `break`, which leaves the loop)
SkipMissingBreak(i) == Len(DtiTypes) + 1
SkipMissing(i) == i + 1

\* Lines 124-148: one iteration of the loop over the metric types, or its end.
ExtractMetric ==
    /\ pc = "metric"
    /\ \/ /\ it > Len(DtiTypes)
          /\ pc' = "walk"
          /\ UNCHANGED <<failure, it, csv>>
       \/ /\ it <= Len(DtiTypes)
          /\ LET img_path == session[1].dwi[1][DtiTypes[it]]
                 combined_targets ==
                     DictMerge(current_resampled_rois, current_resampled_tpms)
             IN  \/ /\ img_path = <<>>
                    /\ it' = SkipMissing(it)
                    /\ UNCHANGED <<pc, failure, csv>>
                 \/ /\ img_path # <<>>
                    /\ ~img_path[1].ok
                    /\ Raise("session")
                    /\ UNCHANGED <<it, csv>>
                 \/ /\ img_path # <<>>
                    /\ img_path[1].ok
                    /\ \E i \in DOMAIN combined_targets :
                          ~Broadcasts(combined_targets[i][2].shape, img_path[1].img.shape)
                    /\ Raise("session")
                    /\ UNCHANGED <<it, csv>>
                 \/ /\ img_path # <<>>
                    /\ img_path[1].ok
                    /\ \A i \in DOMAIN combined_targets :
                          Broadcasts(combined_targets[i][2].shape, img_path[1].img.shape)
                    /\ csv' = csv \cup
                          {[ses |-> sesIdx, dti |-> DtiTypes[it],
                            table |-> Results(img_path[1].img, combined_targets)]}
                    /\ it' = it + 1
                    /\ UNCHANGED <<pc, failure>>
    /\ UNCHANGED <<inputVars, atlasVars, cacheVars, sesIdx, session, ref_img,
                   grid_params, qc, log, resampleCount, exVars>>

Next ==
    \/ LoadAtlas
    \/ NextSession
    \/ Finish
    \/ LoadRef
    \/ ResampleRois
    \/ ResampleTpms
    \/ RenderQc
    \/ ExtractMetric

Spec == Init /\ [][Next]_vars

\* ------------------------------------------------------------- extraction alone
\* The statistics of one region, on every small data volume and mask of one
\* shape.
ExValues == {NaN, Num(-1), Num(0), Num(1), Num(3)}
ExMaskValues == {Num(0), <<1, 2>>, Num(1)}
ExShapes == {<<n, 1, 1>> : n \in 0..MaxVoxels}

InitExtract ==
    /\ pc = "extract"
    /\ atlas = [roi |-> <<>>, tpm |-> <<>>]
    /\ derivExists = FALSE
    /\ Idle
    /\ \E shape \in ExShapes :
          /\ ex_data \in {[shape |-> shape, affine |-> Identity, data |-> d] :
                            d \in [Voxels(shape) -> ExValues]}
          /\ ex_mask \in {[shape |-> shape, affine |-> Identity, data |-> d, at |-> 0] :
                            d \in [Voxels(shape) -> ExMaskValues]}
    /\ ex_out = <<>>

\* Lines 135-143 for one (data, mask) pair.
Extract ==
    /\ pc = "extract"
    /\ ex_out = <<>>
    /\ ex_out' = <<RegionStats(ex_data, ex_mask)>>
    /\ UNCHANGED <<pc, failure, inputVars, atlasVars, cacheVars, sesIdx, session,
                   ref_img, grid_params, it, outVars, log, resampleCount,
                   ex_data, ex_mask>>

SpecExtract == InitExtract /\ [][Extract]_vars

\* ------------------------------------------------------------- properties
NameCorpusCallosum == <<"C","o","r","p","u","s","_","C","a","l","l","o","s","u","m">>
\* A reader of the cache (QC rendering or metric extraction) is about to run.
AtReader == pc \in {"qc", "metric"}
\* The cached entries of both sets.
CacheEntries ==
    {current_resampled_rois[i][2] : i \in DOMAIN current_resampled_rois}
        \cup {current_resampled_tpms[i][2] : i \in DOMAIN current_resampled_tpms}
\* The processed sessions at which the grid (shape, affine sum) differs from
\* the processed session before, the first one included.
GridChanges == {i \in DOMAIN log : i = 1 \/ log[i].gp # log[i - 1].gp}
\* The metric types a session's dwi directory holds a volume for.
Present(s) == {DtiTypes[i] : i \in {j \in DOMAIN DtiTypes : s.dwi[1][DtiTypes[j]] # <<>>}}
\* The metric tables written for session n.
Tables(files, n) == {c.dti : c \in {d \in files : d.ses = n}}
HasRef(s) == s.dwi # <<>> /\ s.dwi[1].FA # <<>>
\* A subdirectory of the atlas that is missing or holds no file matching *.nii*.
Unusable(dir) == dir = <<>> \/ \A i \in DOMAIN dir[1] : ~MatchesNii(dir[1][i].name)

\* C1 (as stated): of any two processed sessions with the same grid (shape,
\* affine sum), adjacent or not, at most one triggers the resampling block.
C1_AnyTwoSessions ==
    \A i \in DOMAIN log : \A j \in DOMAIN log :
        (i < j /\ log[i].gp = log[j].gp) => ~(log[i].resampled /\ log[j].resampled)

\* C1 (amended): of two processed sessions with the same grid and no processed
\* session of a different grid between them, at most one triggers the
\* resampling block.
C1_NoChangeBetween ==
    \A i \in DOMAIN log : \A j \in DOMAIN log :
        (i < j /\ \A k \in i..j : log[k].gp = log[i].gp)
            => ~(log[i].resampled /\ log[j].resampled)

C1_Witness ==
    /\ Len(log) >= 3
    /\ log[1].gp = log[2].gp /\ log[2].gp = log[3].gp
    /\ log[1].resampled
    /\ pc = "done"

\* C2: when a session's grid differs from the recorded one, then once the
\* transition is over every entry of both cached sets was resampled for that
\* session onto its reference grid, one per atlas entry, none is left from the
\* grid before, and the recorded grid is the session's.
C2_WholesaleReplacement ==
    (AtReader /\ log[Len(log)].resampled) =>
        /\ \A e \in CacheEntries :
              /\ e.at = sesIdx
              /\ e.shape = ref_img[1].shape
              /\ e.affine = ref_img[1].affine
        /\ Keys(current_resampled_rois) = Keys(raw_masks)
        /\ Keys(current_resampled_tpms) = Keys(raw_tpms)
        /\ last_grid_params = <<<<ref_img[1].shape, AffineSum(ref_img[1].affine)>>>>

C2_Witness ==
    /\ pc = "qc"
    /\ Len(log) >= 2
    /\ log[Len(log)].resampled
    /\ log[Len(log) - 1].resampled
    /\ current_resampled_rois # <<>>
    /\ current_resampled_tpms # <<>>

\* C3: a failure in one session or metric type never aborts the run; only a
\* setup failure does.
C3_FailureIsolation == pc = "aborted" => failure = "setup"

\* C4: with the ROI or the TPM subdirectory missing or without usable files,
\* atlas loading fails with a setup error before any session is processed, so
\* nothing is resampled and nothing is written.
C4_AtlasSetupError ==
    ((Unusable(atlas.roi) \/ Unusable(atlas.tpm)) /\ pc \notin {"start", "extract"}) =>
        /\ pc = "aborted" /\ failure = "setup"
        /\ log = <<>> /\ resampleCount = 0 /\ csv = {} /\ qc = {}

\* The voxels the statistics of (ex_data, ex_mask) are to be computed over:
\* mask above one half and data above zero.
ExRegion ==
    {v \in Voxels(ex_data.shape) :
        /\ 2 * ex_mask.data[v][1] > ex_mask.data[v][2]
        /\ ex_data.data[v] # NaN
        /\ ex_data.data[v][1] > 0}
\* The sum over the region of the data's values (integers in ExValues), and of
\* their squares, voxel by voxel up to the n-th.
RECURSIVE ExSum(_, _)
ExSum(n, power) ==
    IF n = 0 THEN 0
    ELSE LET v == Unravel(ex_data.shape, n - 1)
             x == IF v \in ExRegion THEN ex_data.data[v][1] ELSE 0
         IN  (IF power = 2 THEN x * x ELSE x) + ExSum(n - 1, power)

\* C5: the statistics are those of exactly the voxels with mask > 0.5 and
\* data > 0; when there is none, all five are the missing-value sentinel.
C5_ExtractionFilter ==
    ex_out # <<>> =>
        LET st == ex_out[1]
            n  == Cardinality(ExRegion)
            s1 == ExSum(Size(ex_data.shape), 1)
            s2 == ExSum(Size(ex_data.shape), 2)
        IN  IF ExRegion = {} THEN st = <<NaN, NaN, NaN, NaN, NaN>>
            ELSE /\ \A k \in 1..5 : st[k] # NaN
                 /\ st[1][1] * n = s1 * st[1][2]
                 /\ st[2][1] * n * n = (n * s2 - s1 * s1) * st[2][2]
                 /\ \E v \in ExRegion : Eq(st[3], ex_data.data[v])
                 /\ \E v \in ExRegion : Eq(st[4], ex_data.data[v])
                 /\ \A v \in ExRegion :
                       ~Lt(ex_data.data[v], st[3]) /\ ~Gt(ex_data.data[v], st[4])
                 /\ 2 * Cardinality({v \in ExRegion : Lt(ex_data.data[v], st[5])}) <= n
                 /\ 2 * Cardinality({v \in ExRegion : Gt(ex_data.data[v], st[5])}) <= n

\* The mask covers voxels, the data is 0 (or not positive) on all of them.
C5_Witness ==
    /\ ex_out # <<>>
    /\ ExRegion = {}
    /\ \E v \in Voxels(ex_data.shape) :
          ex_mask.data[v] = Num(1) /\ ex_data.data[v] = Num(0)
    /\ ex_out[1] = <<NaN, NaN, NaN, NaN, NaN>>

\* C6: a session without a reference volume is passed over with the cache, the
\* recorded grid and the outputs untouched; a session with one is written
\* tables only for metric types it holds, and for all of them by the time its
\* processing completes.
C6_SessionAndMetricSkipping ==
    [][ /\ (pc = "walk" /\ sesIdx' # sesIdx /\ ~HasRef(session'[1])) =>
              /\ pc' = "walk"
              /\ UNCHANGED <<cacheVars, outVars, log, resampleCount>>
        /\ (pc' \in {"metric", "walk", "aborted"} /\ pc = "metric") =>
              Tables(csv', sesIdx) \subseteq Present(session[1])
        /\ (pc = "metric" /\ pc' = "walk") =>
              Tables(csv', sesIdx) = Present(session[1]) ]_vars

\* A session holding FA and RD only has completed with exactly those tables,
\* after a session without FA was passed over.
C6_Witness ==
    /\ pc = "walk"
    /\ sesIdx = 2
    /\ Len(log) = 1
    /\ HasRef(session[1])
    /\ Present(session[1]) = {"FA", "RD"}
    /\ Tables(csv, 2) = {"FA", "RD"}
    /\ Tables(csv, 1) = {}

\* C7: the first processed session resamples; a later one resamples exactly
\* when its grid differs from that of the processed session before it; the
\* resampling block is entered once per such change, the first included.
C7_ResampleCount ==
    /\ (log = <<>> => last_grid_params = <<>> /\ resampleCount = 0)
    /\ \A i \in DOMAIN log : log[i].resampled <=> i \in GridChanges
    /\ resampleCount = Cardinality(GridChanges)

\* Two sessions of different shapes, then a third on the second's grid.
C7_Witness ==
    /\ pc = "done"
    /\ Len(log) = 3
    /\ log[1].gp[1] # log[2].gp[1]
    /\ log[2].gp = log[3].gp
    /\ resampleCount = 2

\* C8: wherever QC or extraction reads the cache, both cached sets hold one
\* entry per loaded atlas entry, all resampled at once onto one grid, which is
\* the recorded one.
C8_NoPartialCacheRead ==
    AtReader =>
        /\ Keys(current_resampled_rois) = Keys(raw_masks)
        /\ Len(current_resampled_rois) = Len(raw_masks)
        /\ Keys(current_resampled_tpms) = Keys(raw_tpms)
        /\ Len(current_resampled_tpms) = Len(raw_tpms)
        /\ \A e \in CacheEntries : \A f \in CacheEntries :
              e.shape = f.shape /\ e.affine = f.affine /\ e.at = f.at
        /\ last_grid_params # <<>>
        /\ \A e \in CacheEntries :
              last_grid_params[1] = <<e.shape, AffineSum(e.affine)>>

\* Extraction reads a cache of five entries built for an earlier session.
C8_Witness ==
    /\ pc = "metric"
    /\ Cardinality(CacheEntries) = 5
    /\ ~log[Len(log)].resampled
    /\ Tables(csv, sesIdx) # {}

\* C9: a QC image is written for a processed session exactly when the cached
\* ROIs hold "Corpus_Callosum" and some cached TPM's lower-cased name contains
\* "white" or "wm"; it shows that ROI and the first such TPM in load order.
C9_QcTargetSelection ==
    pc = "metric" =>
        LET lowered(k) == Lower(k)
            hits == {i \in DOMAIN raw_tpms :
                        \/ Contains(lowered(raw_tpms[i][1]), <<"w","h","i","t","e">>)
                        \/ Contains(lowered(raw_tpms[i][1]), <<"w","m">>)}
            cc   == {i \in DOMAIN current_resampled_rois :
                        current_resampled_rois[i][1] = NameCorpusCallosum}
            mine == {q \in qc : q.ses = sesIdx}
        IN  /\ mine # {} <=> (cc # {} /\ hits # {})
            /\ Cardinality(mine) <= 1
            /\ \A q \in mine : \A h \in hits : \A c \in cc :
                  (\A g \in hits : h <= g) =>
                      /\ q.wm_name = raw_tpms[h][1]
                      /\ q.wm = current_resampled_tpms[h][2]
                      /\ q.roi = current_resampled_rois[c][2]

\* QC written with the second TPM in load order, the first whose name matches.
C9_Witness ==
    /\ pc = "metric"
    /\ Len(raw_tpms) = 3
    /\ \E q \in qc : q.ses = sesIdx /\ q.wm_name = raw_tpms[2][1]

\* QC skipped for want of a target, and the session's FA table written.
C9_WitnessSkipped ==
    /\ pc = "metric"
    /\ raw_masks # <<>> /\ raw_tpms # <<>>
    /\ \A q \in qc : q.ses # sesIdx
    /\ "FA" \in Tables(csv, sesIdx)

\* C10: every cached entry a reader uses lies on the grid of the session's
\* reference volume: same shape and same 4x4 affine.
C10_CacheOnReferenceGrid ==
    AtReader =>
        \A e \in CacheEntries :
            e.shape = ref_img[1].shape /\ e.affine = ref_img[1].affine

====
